---- MODULE Spec2Model ----
(***************************************************************************)
(* MomentumRankStrategy (user_data/strategies/MomentumRankStrategy.py).   *)
(*                                                                         *)
(* The host calls populate_entry_trend and then populate_exit_trend for   *)
(* one pair.  populate_entry_trend ranks, for every bar i >= the lookback, *)
(* all whitelisted pairs by momentum and flags the pair when it is among  *)
(* the first / last TOP_N of the ranking; populate_exit_trend copies the  *)
(* entry columns, lagged by the holding period, into the exit columns.    *)
(*                                                                         *)
(* Bars are numbered from 0 as in the source; bar b of a column lives at  *)
(* index b + 1 of the sequence that models the column.                    *)
(*                                                                         *)
(* Closes are small naturals.  A momentum is kept as the exact quotient   *)
(* num / den instead of the float the source computes: IEEE division and  *)
(* the multiplication by 100 are monotone and correctly rounded, so equal *)
(* quotients give equal floats and, for the small integers used here,     *)
(* different quotients give different floats.  A zero lookback close      *)
(* gives what numpy float division gives: +inf for x/0 with x > 0 and NaN *)
(* for 0/0.  sorted() is modelled as CPython computes it for lists        *)
(* shorter than 64 items (one run found by count_run, the rest inserted   *)
(* by binarysort), because with NaN keys the outcome depends on which     *)
(* comparisons the algorithm makes.                                       *)
(***************************************************************************)
EXTENDS Integers, Sequences, FiniteSets, TLC

VARIABLES
    whitelist,        \* self.dp.current_whitelist(): pairs in iteration order
    closes,           \* closes[p]: the "close" column of dp.get_pair_dataframe(p)
    pair,             \* metadata["pair"]; its dataframe is closes[pair]
    LOOKBACK_PERIOD,  \* strategy attribute
    TOP_N,            \* strategy attribute
    timeframe,        \* strategy attribute, a string as a sequence of characters
    enter_long,       \* dataframe["enter_long"]  (<<>> while the column is absent)
    enter_short,      \* dataframe["enter_short"]
    exit_long,        \* dataframe["exit_long"]
    exit_short,       \* dataframe["exit_short"]
    pc,               \* where the host / the running handler is
    i,                \* the loop variable of the running for loop (-1: none yet)
    sorted_pairs,     \* local of populate_entry_trend, as of its last ranking
    top_n,            \* local of populate_entry_trend
    bottom_n,         \* local of populate_entry_trend
    holding_periods,  \* local of populate_exit_trend
    run,              \* which evaluation of the pair this is (1 or 2)
    cut,              \* last bar at which run 2's data agrees with run 1's
    first             \* the four signal columns run 1 returned

vars == <<whitelist, closes, pair, LOOKBACK_PERIOD, TOP_N, timeframe,
          enter_long, enter_short, exit_long, exit_short, pc, i,
          sorted_pairs, top_n, bottom_n, holding_periods, run, cut, first>>

data == <<whitelist, closes, pair, LOOKBACK_PERIOD, TOP_N, timeframe>>
entry_locals == <<sorted_pairs, top_n, bottom_n>>
rerun_vars == <<run, cut, first>>

(***************************************************************************)
(* Bounds of the model and program constants.                              *)
(***************************************************************************)
MaxBars == 3          \* longest series of the generic universe
HOLDING_PERIOD == 1   \* days
HOURS_PER_DAY == 24
MINUTES_PER_HOUR == 60
PERCENT == 100

CloseValues == {0, 1}
Lookbacks == {1, 2}
TopNs == {1, 2}
GenericWhitelist == <<"A", "B", "C">>
WideWhitelist == <<"A", "B", "C", "D", "E", "F", "G">>
ScenarioWhitelist == <<"A", "B", "C", "D">>

Min(a, b) == IF a < b THEN a ELSE b
Max(a, b) == IF a > b THEN a ELSE b
Range(s) == {s[k] : k \in 1..Len(s)}
Reverse(s) == [k \in 1..Len(s) |-> s[Len(s) + 1 - k]]
Zeros(n) == [k \in 1..n |-> 0]
Series(n) == UNION {[1..m -> CloseValues] : m \in 0..n}

(***************************************************************************)
(* Momentum and the float comparison.                                      *)
(***************************************************************************)
NaN == [k |-> "nan", n |-> 0, d |-> 1]
PosInf == [k |-> "inf", n |-> 1, d |-> 1]

\* ((cur - old) / old * 100) on floats
FloatMomentum(cur, old) ==
    IF old = 0
    THEN IF cur = 0 THEN NaN ELSE PosInf
    ELSE [k |-> "num", n |-> (cur - old) * PERCENT, d |-> old]

\* x < y on floats: false whenever either side is NaN
FloatLt(x, y) ==
    IF x.k = "nan" \/ y.k = "nan" THEN FALSE
    ELSE IF x.k = "inf" THEN FALSE
    ELSE IF y.k = "inf" THEN TRUE
    ELSE x.n * y.d < y.n * x.d

\* a lookahead variant: the newest close of the series (iloc[-1]) instead of iloc[bar]
MomentumLatest(series, bar) ==
    FloatMomentum(series[Len(series)], series[bar - LOOKBACK_PERIOD + 1])

\* the momentum of a series at bar: iloc[bar] against iloc[bar - LOOKBACK_PERIOD]
Momentum(series, bar) ==
    FloatMomentum(series[bar + 1], series[bar - LOOKBACK_PERIOD + 1])

RECURSIVE Collect(_, _)
Collect(k, bar) ==
    IF k > Len(whitelist) THEN <<>>
    ELSE LET p == whitelist[k]
         IN  IF Len(closes[p]) > bar
             THEN <<[p |-> p, m |-> Momentum(closes[p], bar)]>> \o Collect(k + 1, bar)
             ELSE Collect(k + 1, bar)

\* a variant that ranks a pair with too short a series with momentum zero
all_pairs_momentum_zero_fill(bar) ==
    [k \in 1..Len(whitelist) |->
        LET p == whitelist[k]
        IN  [p |-> p,
             m |-> IF Len(closes[p]) > bar THEN Momentum(closes[p], bar)
                   ELSE [k |-> "num", n |-> 0, d |-> 1]]]

\* all_pairs_momentum.items() at bar: (pair, momentum) in whitelist order
all_pairs_momentum(bar) == Collect(1, bar)

(***************************************************************************)
(* sorted(items, key=lambda x: x[1], reverse=True)                         *)
(***************************************************************************)
KeyLt(x, y) == FloatLt(x.m, y.m)

RECURSIVE RunLen(_, _, _)
RunLen(a, n, descending) ==
    IF n < Len(a) /\ (KeyLt(a[n + 1], a[n]) = descending)
    THEN RunLen(a, n + 1, descending)
    ELSE n

count_run(a) ==
    IF Len(a) = 1 THEN [n |-> 1, descending |-> FALSE]
    ELSE LET d == KeyLt(a[2], a[1])
         IN  [n |-> RunLen(a, 2, d), descending |-> d]

RECURSIVE BinarySearch(_, _, _, _)
BinarySearch(a, pivot, l, r) ==
    IF l < r
    THEN LET p == l + ((r - l) \div 2)
         IN  IF KeyLt(pivot, a[p + 1])
             THEN BinarySearch(a, pivot, l, p)
             ELSE BinarySearch(a, pivot, p + 1, r)
    ELSE l

RECURSIVE binarysort(_, _)
binarysort(a, start) ==
    IF start >= Len(a) THEN a
    ELSE LET pivot == a[start + 1]
             l == BinarySearch(a, pivot, 0, start)
         IN  binarysort(SubSeq(a, 1, l) \o <<pivot>> \o SubSeq(a, l + 1, start)
                            \o SubSeq(a, start + 2, Len(a)),
                        start + 1)

listsort(a) ==
    IF Len(a) < 2 THEN a
    ELSE LET r == count_run(a)
             b == IF r.descending
                  THEN Reverse(SubSeq(a, 1, r.n)) \o SubSeq(a, r.n + 1, Len(a))
                  ELSE a
         IN  binarysort(b, r.n)

sorted_reverse(items) == Reverse(listsort(Reverse(items)))

\* s[:n] and s[-n:] of a list, for n >= 0
TopSlice(s, n) == SubSeq(s, 1, Min(n, Len(s)))
\* a variant one item too long: s[-(n + 1):]
BottomSliceOneMore(s, n) == SubSeq(s, Max(Len(s) - (n + 1), 0) + 1, Len(s))
BottomSlice(s, n) == SubSeq(s, (IF n = 0 THEN 0 ELSE Max(Len(s) - n, 0)) + 1, Len(s))
Names(s) == [k \in 1..Len(s) |-> s[k].p]
In(x, s) == \E k \in 1..Len(s) : s[k] = x

(***************************************************************************)
(* int(timeframe[:-1]) and the holding period in bars.                     *)
(***************************************************************************)
Digit(c) ==
    CASE c = "0" -> 0 [] c = "1" -> 1 [] c = "2" -> 2 [] c = "3" -> 3
      [] c = "4" -> 4 [] c = "5" -> 5 [] c = "6" -> 6 [] c = "7" -> 7
      [] c = "8" -> 8 [] c = "9" -> 9

RECURSIVE ParseInt(_)
ParseInt(s) ==
    IF Len(s) = 0 THEN 0
    ELSE ParseInt(SubSeq(s, 1, Len(s) - 1)) * 10 + Digit(s[Len(s)])

HoldingPeriods(tf) ==
    (HOLDING_PERIOD * HOURS_PER_DAY * MINUTES_PER_HOUR) \div ParseInt(SubSeq(tf, 1, Len(tf) - 1))

TF_30m == <<"3", "0", "m">>
TF_7m == <<"7", "m">>
TF_1h == <<"1", "h">>
TF_4h == <<"4", "h">>
TF_1d == <<"1", "d">>
TF_480m == <<"4", "8", "0", "m">>
TF_720m == <<"7", "2", "0", "m">>
TF_1440m == <<"1", "4", "4", "0", "m">>
Timeframes == {TF_30m, TF_7m, TF_1h, TF_4h, TF_1d, TF_480m, TF_720m, TF_1440m}

(***************************************************************************)
(* Initial states.                                                         *)
(***************************************************************************)
Fresh ==
    /\ enter_long = <<>> /\ enter_short = <<>>
    /\ exit_long = <<>> /\ exit_short = <<>>
    /\ pc = "entry" /\ i = -1
    /\ sorted_pairs = <<>> /\ top_n = <<>> /\ bottom_n = <<>>
    /\ holding_periods = 0
    /\ run = 1 /\ cut = -1 /\ first = <<>>

\* the first and the last pair of a whitelist: ties favour the first for
\* top_n and the last for bottom_n
Ends(wl) == {wl[1], wl[Len(wl)]}

\* a small universe with every combination of series
InitGeneric ==
    /\ whitelist = GenericWhitelist
    /\ closes \in [Range(GenericWhitelist) -> Series(MaxBars)]
    /\ pair \in Ends(GenericWhitelist)
    /\ LOOKBACK_PERIOD \in Lookbacks
    /\ TOP_N \in TopNs
    /\ timeframe = TF_1440m
    /\ Fresh

\* the scenario of the specification's testable property 6
ScenarioCloses ==
    [p \in Range(ScenarioWhitelist) |->
        CASE p = "A" -> <<10, 10, 12, 15, 20>>
          [] p = "B" -> <<10, 11, 10, 9, 8>>
          [] p = "C" -> <<10, 10, 10, 10, 10>>
          [] p = "D" -> <<10, 9, 9, 9, 9>>]

InitScenario ==
    /\ whitelist = ScenarioWhitelist
    /\ closes = ScenarioCloses
    /\ pair \in Range(ScenarioWhitelist)
    /\ LOOKBACK_PERIOD = 2
    /\ TOP_N = 1
    /\ timeframe = TF_720m
    /\ Fresh

\* a universe in which only one pair has history beyond the first bar
ThinCloses ==
    [p \in Range(GenericWhitelist) |->
        CASE p = "A" -> <<10, 12, 13>>
          [] p = "B" -> <<10>>
          [] p = "C" -> <<10>>]

InitThin ==
    /\ whitelist = GenericWhitelist
    /\ closes = ThinCloses
    /\ pair \in Range(GenericWhitelist)
    /\ LOOKBACK_PERIOD = 1
    /\ TOP_N \in TopNs
    /\ timeframe = TF_1440m
    /\ Fresh

\* a wider universe, two bars each, ranked once at bar 1
InitWide ==
    /\ whitelist = WideWhitelist
    /\ closes \in [Range(WideWhitelist) -> [1..2 -> CloseValues]]
    /\ pair = WideWhitelist[1]
    /\ LOOKBACK_PERIOD = 1
    /\ TOP_N = 2
    /\ timeframe = TF_1440m
    /\ Fresh

Init == InitThin \/ InitScenario \/ InitGeneric \/ InitWide

(***************************************************************************)
(* populate_entry_trend                                                    *)
(***************************************************************************)
NextBar(start) == IF i < start THEN start ELSE i + 1

\* lines 61-69: the signal columns, and the early return on a short frame
EntryInit ==
    /\ pc = "entry"
    /\ enter_long' = Zeros(Len(closes[pair]))
    /\ enter_short' = Zeros(Len(closes[pair]))
    /\ pc' = IF Len(closes[pair]) <= LOOKBACK_PERIOD THEN "exit" ELSE "entry_loop"
    /\ i' = -1
    /\ UNCHANGED <<data, exit_long, exit_short, entry_locals, holding_periods, rerun_vars>>

\* lines 72-143: one iteration of the loop over the bars
EntryStep ==
    /\ pc = "entry_loop"
    /\ NextBar(LOOKBACK_PERIOD) < Len(closes[pair])
    /\ LET bar == NextBar(LOOKBACK_PERIOD)
           items == all_pairs_momentum(bar)
           ranking == sorted_reverse(items)
           top == Names(TopSlice(ranking, TOP_N))
           bottom == Names(BottomSlice(ranking, TOP_N))
       IN  /\ i' = bar
           /\ IF items # <<>>
              THEN /\ sorted_pairs' = ranking
                   /\ top_n' = top
                   /\ bottom_n' = bottom
                   /\ enter_long' = IF In(pair, top)
                                    THEN [enter_long EXCEPT ![bar + 1] = 1]
                                    ELSE enter_long
                   /\ enter_short' = IF In(pair, bottom)
                                     THEN [enter_short EXCEPT ![bar + 1] = 1]
                                     ELSE enter_short
              ELSE UNCHANGED <<entry_locals, enter_long, enter_short>>
    /\ UNCHANGED <<data, exit_long, exit_short, pc, holding_periods, rerun_vars>>

\* line 145: the loop is exhausted
EntryReturn ==
    /\ pc = "entry_loop"
    /\ NextBar(LOOKBACK_PERIOD) >= Len(closes[pair])
    /\ pc' = "exit"
    /\ UNCHANGED <<data, enter_long, enter_short, exit_long, exit_short, i,
                   entry_locals, holding_periods, rerun_vars>>

(***************************************************************************)
(* populate_exit_trend                                                     *)
(***************************************************************************)
\* a variant with the strict comparison
ExitDueStrict(bar, h) == bar > h
\* line 157: the guard of the lagged read
ExitDue(bar, h) == bar >= h

\* lines 157-161 for one bar and one side: the value the exit column gets
ExitSignal(enter, bar, h) ==
    IF ExitDue(bar, h) /\ enter[(bar - h) + 1] = 1 THEN 1 ELSE 0

\* lines 156-161: the loop over all bars of the frame, for one side
ExitColumn(enter, h) == [k \in 1..Len(enter) |-> ExitSignal(enter, k - 1, h)]

\* lines 147-163, the whole handler
PopulateExitTrend ==
    /\ pc = "exit"
    /\ holding_periods' = HoldingPeriods(timeframe)
    /\ exit_long' = ExitColumn(enter_long, HoldingPeriods(timeframe))
    /\ exit_short' = ExitColumn(enter_short, HoldingPeriods(timeframe))
    /\ i' = Len(enter_long) - 1
    /\ pc' = "done"
    /\ UNCHANGED <<data, enter_long, enter_short, entry_locals, rerun_vars>>

Next == EntryInit \/ EntryStep \/ EntryReturn \/ PopulateExitTrend

Spec == Init /\ [][Next]_vars

(***************************************************************************)
(* populate_exit_trend alone, on any frame with entry columns and under   *)
(* every timeframe.                                                        *)
(***************************************************************************)
InitExit ==
    /\ whitelist = GenericWhitelist
    /\ pair \in Range(GenericWhitelist)
    /\ \E n \in 0..MaxBars :
          /\ closes = [p \in Range(GenericWhitelist) |-> [k \in 1..n |-> 1]]
          /\ enter_long \in [1..n -> {0, 1}]
          /\ enter_short \in [1..n -> {0, 1}]
    /\ LOOKBACK_PERIOD = 1
    /\ TOP_N = 1
    /\ timeframe \in Timeframes
    /\ exit_long = <<>> /\ exit_short = <<>>
    /\ pc = "exit" /\ i = -1
    /\ sorted_pairs = <<>> /\ top_n = <<>> /\ bottom_n = <<>>
    /\ holding_periods = 0
    /\ run = 1 /\ cut = -1 /\ first = <<>>

NextExit == PopulateExitTrend

SpecExit == InitExit /\ [][NextExit]_vars

(***************************************************************************)
(* Two evaluations of the same pair: after the first, the data provider's *)
(* series change at bars later than some bar `cut` (closes change, bars   *)
(* disappear or appear) and the host evaluates the pair again.            *)
(***************************************************************************)
RerunWhitelist == <<"A", "B">>
RerunBars == MaxBars + 1
Modes == {"truncate", "flip", "extend"}

Perturb(series, k, mode) ==
    CASE mode = "truncate" -> SubSeq(series, 1, Min(Len(series), k + 1))
      [] mode = "flip" -> [j \in 1..Len(series) |->
                              IF j - 1 > k THEN (IF series[j] = 0 THEN 1 ELSE 0)
                              ELSE series[j]]
      [] mode = "extend" -> IF Len(series) >= k + 1 /\ Len(series) < RerunBars
                            THEN Append(series, 1)
                            ELSE series

InitRerun ==
    /\ whitelist = RerunWhitelist
    /\ closes \in [Range(RerunWhitelist) -> Series(RerunBars)]
    /\ pair \in Range(RerunWhitelist)
    /\ LOOKBACK_PERIOD \in Lookbacks
    /\ TOP_N = 1
    /\ timeframe = TF_1440m
    /\ Fresh

NewData ==
    /\ pc = "done"
    /\ run = 1
    /\ \E k \in 0..(RerunBars - 1), mode \in Modes :
          /\ closes' = [p \in DOMAIN closes |-> Perturb(closes[p], k, mode)]
          /\ cut' = k
    /\ first' = [closes |-> closes, enter_long |-> enter_long, enter_short |-> enter_short,
                 exit_long |-> exit_long, exit_short |-> exit_short]
    /\ run' = 2
    /\ pc' = "entry"
    /\ i' = -1
    /\ enter_long' = <<>> /\ enter_short' = <<>>
    /\ exit_long' = <<>> /\ exit_short' = <<>>
    /\ sorted_pairs' = <<>> /\ top_n' = <<>> /\ bottom_n' = <<>>
    /\ holding_periods' = 0
    /\ UNCHANGED <<whitelist, pair, LOOKBACK_PERIOD, TOP_N, timeframe>>

NextRerun == EntryInit \/ EntryStep \/ EntryReturn \/ PopulateExitTrend \/ NewData

SpecRerun == InitRerun /\ [][NextRerun]_vars

(***************************************************************************)
(* Properties.                                                             *)
(***************************************************************************)
\* populate_entry_trend has just ranked bar i: the locals are those of bar i
RankedAt ==
    /\ pc = "entry_loop"
    /\ i >= LOOKBACK_PERIOD
    /\ \E p \in Range(whitelist) : Len(closes[p]) > i

Bars(col) == 0..(Len(col) - 1)
Index(s, x) == CHOOSE k \in 1..Len(s) : s[k] = x
RankedNames == Range(Names(sorted_pairs))
MomentumOf(p) == Momentum(closes[p], i)
\* == on floats
FloatEq(x, y) ==
    /\ x.k # "nan" /\ y.k # "nan"
    /\ x.k = y.k
    /\ (x.k = "num" => x.n * y.d = y.n * x.d)

\* C1: when populate_exit_trend has returned, exit_long is 1 at bar b exactly
\* when b >= H and enter_long is 1 at bar b - H, and the same for exit_short and
\* enter_short, with H the holding period in bars; bars below H get no exit.
C1_ExitIsLaggedEntry ==
    pc = "done" =>
        /\ Len(exit_long) = Len(enter_long)
        /\ Len(exit_short) = Len(enter_short)
        /\ \A b \in Bars(enter_long) :
              /\ exit_long[b + 1] \in {0, 1}
              /\ exit_long[b + 1] = 1 <=>
                    (b >= holding_periods /\ enter_long[b - holding_periods + 1] = 1)
        /\ \A b \in Bars(enter_short) :
              /\ exit_short[b + 1] \in {0, 1}
              /\ exit_short[b + 1] = 1 <=>
                    (b >= holding_periods /\ enter_short[b - holding_periods + 1] = 1)

\* C1 witness: an entry at bar 0 whose exit is set at bar H >= 1, and the
\* entry at bar H itself set with no exit H bars later in the frame.
C1_Witness ==
    /\ pc = "done"
    /\ holding_periods >= 1
    /\ Len(enter_long) > holding_periods
    /\ enter_long[1] = 1
    /\ exit_long[holding_periods + 1] = 1
    /\ exit_long[1] = 0
    /\ enter_short[1] = 0
    /\ exit_short[holding_periods + 1] = 0

\* C2 (as claimed): after every ranking top_n and bottom_n hold at most TOP_N
\* pairs, and they are disjoint whenever the whitelist has at least 2 * TOP_N
\* pairs.
C2_DisjointByWhitelist ==
    RankedAt =>
        /\ Len(top_n) <= TOP_N
        /\ Len(bottom_n) <= TOP_N
        /\ Len(whitelist) >= 2 * TOP_N => Range(top_n) \cap Range(bottom_n) = {}

\* C2 (amended): after every ranking top_n and bottom_n hold at most TOP_N
\* pairs, and they are disjoint whenever at least 2 * TOP_N pairs were ranked
\* at that bar.
C2_DisjointByRanked ==
    RankedAt =>
        /\ Len(top_n) <= TOP_N
        /\ Len(bottom_n) <= TOP_N
        /\ Len(sorted_pairs) >= 2 * TOP_N => Range(top_n) \cap Range(bottom_n) = {}

\* C2 witness: a ranking of at least 2 * TOP_N pairs, fewer than the whitelist
\* holds, with both selections full.
C2_Witness ==
    /\ RankedAt
    /\ Len(sorted_pairs) >= 2 * TOP_N
    /\ Len(sorted_pairs) < Len(whitelist)
    /\ Len(top_n) = TOP_N
    /\ Len(bottom_n) = TOP_N

\* top_n as populate_entry_trend computes it at bar (empty below the lookback)
TopAt(bar) ==
    IF bar < LOOKBACK_PERIOD THEN <<>>
    ELSE Names(TopSlice(sorted_reverse(all_pairs_momentum(bar)), TOP_N))
BottomAt(bar) ==
    IF bar < LOOKBACK_PERIOD THEN <<>>
    ELSE Names(BottomSlice(sorted_reverse(all_pairs_momentum(bar)), TOP_N))

\* C3: an entry signal at bar i is set only when the pair is newly selected:
\* enter_long at bar i only if the pair is in top_n at bar i and was not in
\* top_n at bar i - 1, and the same for enter_short and bottom_n.
C3_EntryOnlyWhenNewlySelected ==
    RankedAt =>
        /\ enter_long[i + 1] = 1 => (In(pair, top_n) /\ ~In(pair, TopAt(i - 1)))
        /\ enter_short[i + 1] = 1 => (In(pair, bottom_n) /\ ~In(pair, BottomAt(i - 1)))

\* C4: no bar of the frame has enter_long and enter_short set together (long
\* has priority for a pair that is in both top_n and bottom_n).
C4_LongPriority ==
    \A b \in Bars(enter_long) : ~(enter_long[b + 1] = 1 /\ enter_short[b + 1] = 1)

\* C5: two evaluations whose series agree at every bar <= cut give the same
\* four signals at every bar <= cut that both frames have.
C5_NoLookahead ==
    (run = 2 /\ pc = "done") =>
        \A b \in 0..cut :
            (b < Len(enter_long) /\ b < Len(first.enter_long)) =>
                /\ enter_long[b + 1] = first.enter_long[b + 1]
                /\ enter_short[b + 1] = first.enter_short[b + 1]
                /\ exit_long[b + 1] = first.exit_long[b + 1]
                /\ exit_short[b + 1] = first.exit_short[b + 1]

\* C5 witness: the second evaluation ran on series that differ from the first
\* one's after bar cut, the pair's own frame among them, and an entry and an
\* exit signal are set at bars <= cut.
C5_Witness ==
    /\ run = 2 /\ pc = "done"
    /\ closes[pair] # first.closes[pair]
    /\ \E q \in DOMAIN closes : q # pair /\ closes[q] # first.closes[q]
    /\ \E b \in 0..cut : b < Len(enter_long) /\ enter_long[b + 1] = 1
    /\ \E b \in 0..cut : b < Len(exit_long) /\ exit_long[b + 1] = 1

\* C6: a ranking happens only at bars i >= LOOKBACK_PERIOD and holds only
\* pairs whose series has at least i + 1 bars; a pair with a shorter series is
\* not ranked (nor in top_n or bottom_n); and no bar below LOOKBACK_PERIOD
\* carries an entry signal.
C6_ShortHistoryExcluded ==
    /\ RankedAt =>
          LET ranked == RankedNames
          IN  /\ i >= LOOKBACK_PERIOD
              /\ \A p \in Range(whitelist) :
                    Len(closes[p]) <= i =>
                        /\ p \notin ranked
                        /\ ~In(p, top_n)
                        /\ ~In(p, bottom_n)
              /\ Range(top_n) \subseteq ranked
              /\ Range(bottom_n) \subseteq ranked
    /\ \A b \in Bars(enter_long) :
          b < LOOKBACK_PERIOD => (enter_long[b + 1] = 0 /\ enter_short[b + 1] = 0)

\* C6 witness: a ranking at a bar that one whitelisted pair does not have,
\* with two other pairs ranked, on a frame whose first bars carry no signal.
C6_Witness ==
    /\ RankedAt
    /\ \E p \in Range(whitelist) : Len(closes[p]) <= i
    /\ Len(sorted_pairs) >= 2
    /\ enter_long[i + 1] = 1
    /\ enter_long[1] = 0

\* C7: a pair whose lookback close is zero is not ranked at bar i: it is not
\* in sorted_pairs, top_n or bottom_n and gets no entry signal at bar i.
C7_ZeroLookbackExcluded ==
    RankedAt =>
        \A p \in Range(whitelist) :
            (Len(closes[p]) > i /\ closes[p][i - LOOKBACK_PERIOD + 1] = 0) =>
                /\ p \notin RankedNames
                /\ ~In(p, top_n)
                /\ ~In(p, bottom_n)
                /\ p = pair => (enter_long[i + 1] = 0 /\ enter_short[i + 1] = 0)

\* ranked pairs with a momentum above / below p's
Above(p) == {q \in RankedNames : FloatLt(MomentumOf(p), MomentumOf(q))}
Below(p) == {q \in RankedNames : FloatLt(MomentumOf(q), MomentumOf(p))}

\* C8: at a ranked bar, enter_long is set exactly when the pair is among the
\* first TOP_N of the ranked pairs in descending order of momentum, and
\* enter_short exactly when it is among the last TOP_N: a pair with enter_long
\* has fewer than TOP_N ranked pairs strictly above it, a pair with fewer than
\* TOP_N other ranked pairs not strictly below it has enter_long, and the same
\* mirrored for enter_short.
C8_EntryIffAmongFirstOrLastN ==
    RankedAt =>
        /\ enter_long[i + 1] = 1 => Cardinality(Above(pair)) < TOP_N
        /\ Cardinality(RankedNames \ (Below(pair) \cup {pair})) < TOP_N
              => enter_long[i + 1] = 1
        /\ enter_short[i + 1] = 1 => Cardinality(Below(pair)) < TOP_N
        /\ Cardinality(RankedNames \ (Above(pair) \cup {pair})) < TOP_N
              => enter_short[i + 1] = 1

\* The scenario of C8 (universe A, B, C, D, lookback 2, TOP_N 1, holding
\* period 2 bars) as stated: entries at bar 2 for A (long) and B (short) only,
\* exits at bar 4 for A (long) and B (short).
Scenario_AsSpecified ==
    (whitelist = ScenarioWhitelist /\ pc = "done") =>
        /\ enter_long[3] = 1 <=> pair = "A"
        /\ enter_short[3] = 1 <=> pair = "B"
        /\ exit_long[5] = 1 <=> pair = "A"
        /\ exit_short[5] = 1 <=> pair = "B"

\* The same scenario as the code evaluates it: at bar 2 the momenta are
\* A = 20, B = 0, C = 0, D = -10, so the short entry at bar 2 and the short
\* exit at bar 4 go to D; B gets its short entries at bars 3 and 4.
Scenario_Observed ==
    (whitelist = ScenarioWhitelist /\ pc = "done") =>
        /\ enter_long = (IF pair = "A" THEN <<0, 0, 1, 1, 1>> ELSE Zeros(5))
        /\ exit_long = (IF pair = "A" THEN <<0, 0, 0, 0, 1>> ELSE Zeros(5))
        /\ enter_short = (CASE pair = "B" -> <<0, 0, 0, 1, 1>>
                            [] pair = "D" -> <<0, 0, 1, 0, 0>>
                            [] OTHER -> Zeros(5))
        /\ exit_short = (IF pair = "D" THEN <<0, 0, 0, 0, 1>> ELSE Zeros(5))

\* C9: the ranking is stable: two ranked pairs with equal momentum stand in
\* sorted_pairs in the order in which the whitelist iterates them.
C9_StableRanking ==
    RankedAt =>
        \A a, b \in 1..Len(sorted_pairs) :
            (a < b /\ FloatEq(sorted_pairs[a].m, sorted_pairs[b].m)) =>
                Index(whitelist, sorted_pairs[a].p) < Index(whitelist, sorted_pairs[b].p)

\* minutes of one bar of a timeframe string, by its unit
UnitMinutes(u) ==
    CASE u = "m" -> 1
      [] u = "h" -> MINUTES_PER_HOUR
      [] u = "d" -> HOURS_PER_DAY * MINUTES_PER_HOUR
BarMinutes(tf) == ParseInt(SubSeq(tf, 1, Len(tf) - 1)) * UnitMinutes(tf[Len(tf)])

\* C10: the holding period in bars is holding days times bars per day of the
\* timeframe, truncated toward zero, for minute, hour and day timeframes.
C10_HoldingPeriodInBars ==
    pc = "done" =>
        holding_periods =
            (HOLDING_PERIOD * HOURS_PER_DAY * MINUTES_PER_HOUR) \div BarMinutes(timeframe)

====
